---- MODULE Spec2Model ----
(***************************************************************************)
(* A model of the response-shaping utilities of the n8n MCP server:        *)
(* formatTruncatedResponse, chunkResponse, needsChunking,                  *)
(* formatChunkedResponse, createSuccessResponse (response-formatter.ts),   *)
(* approximateObjectSize, serializeToJson (json-serializer.ts) and         *)
(* paginateResults (pagination.ts), and of its HTTP front:                 *)
(* authenticateSseRequest (middleware/auth.ts) and the SSE server's        *)
(* session map (transports/sse.ts).                                        *)
(*                                                                         *)
(* The utilities are pure functions.  Each of their specifications draws   *)
(* the arguments of a call from a bounded set in its initial state and has *)
(* one action per exported function, which stores what the function        *)
(* returns (or the fact that it threw) in ret.  SseSpec is the HTTP        *)
(* server, one action per handler; TraverseSpec is a caller that walks     *)
(* all pages of paginateResults.                                           *)
(***************************************************************************)
EXTENDS Integers, Sequences, FiniteSets, TLC

VARIABLES
  data,     \* the value handed to the response formatter
  options,  \* the FormattingOptions record of the call
  message,  \* the optional success message of createSuccessResponse
  items,    \* the array handed to paginateResults
  params,   \* the PaginationParams record of the call
  pc,       \* the function that returned last ("start" before any call)
  ret,      \* what that function returned
  prev,     \* what the call before it returned (a second pass reads it)
  allItems, \* the items a caller has gathered page after page
  mcpApiKey,    \* the MCP API key of the environment configuration
  transports,   \* the SSE server's map of transports: its session ids
  connections,  \* the sessions whose GET connection is open
  sessions,     \* how many session ids have been generated
  posts,        \* the POST requests a transport is handling
  req,          \* the HTTP request received last
  res           \* the answer to it

\* the state of the HTTP server
server == <<mcpApiKey, transports, connections, sessions, posts, req, res>>

vars == <<data, options, message, items, params, pc, ret, prev, allItems,
          mcpApiKey, transports, connections, sessions, posts, req, res>>

-----------------------------------------------------------------------------
(* Bounds of the model. *)

\* the largest number of elements of a top-level array, or of pairs of a
\* top-level mapping, among the inputs
MaxLen == 3

\* the longest array handed to paginateResults
MaxItems == 12

\* the longest error message handed to createErrorResponse
MaxMessage == 40

\* how many SSE sessions are opened, and how many POST requests are being
\* handled by a transport at a time
MaxSessions == 2
MaxPosts == 1

\* the composites of a value graph
MaxNodes == 2

-----------------------------------------------------------------------------
(* JavaScript values.  A value is a record tagged by t, the result of      *)
(* typeof (with "null" and "array" told apart as the code tells them       *)
(* apart).  An object's own enumerable properties are a sequence of        *)
(* <<key, value>> pairs in Object.entries order.  A value graph with a     *)
(* reference cycle is written as a tree with "ref" leaves: Ref(k) is a     *)
(* reference to the composite k levels above the leaf, so that             *)
(* Obj(<< <<"self", Ref(1)>> >>) is the object o with o.self === o.        *)
(* Strings hold no character that JSON.stringify escapes.                  *)

None == <<>>
Some(x) == <<x>>

Null == [t |-> "null"]
Undefined == [t |-> "undefined"]
Bool(b) == [t |-> "boolean", b |-> b]
Num(n) == [t |-> "number", n |-> n]
Str(s) == [t |-> "string", s |-> s]
Arr(elems) == [t |-> "array", v |-> elems]
Obj(entries) == [t |-> "object", v |-> entries]
Ref(k) == [t |-> "ref", up |-> k]

\* typeof value === 'object' (null, arrays, objects and references to them)
IsObjectType(value) == value.t \in {"null", "array", "object", "ref"}

Min(a, b) == IF a < b THEN a ELSE b
Max(a, b) == IF a > b THEN a ELSE b

\* Array.prototype.slice(start, end) for start >= 0: a negative end counts
\* from the end of the array
JsSlice(s, start, end) ==
  LET e == IF end < 0 THEN Max(Len(s) + end, 0) ELSE Min(end, Len(s))
  IN  SubSeq(s, start + 1, e)

\* the ancestors of the target of Ref(k) met under the ancestors anc, and
\* the target itself
RefAncestors(value, anc) == SubSeq(anc, 1, Len(anc) - value.up)
RefTarget(value, anc) == anc[Len(anc) - value.up + 1]

\* whether a reference is reachable from value, i.e. the graph has a cycle
RECURSIVE HasCycle(_)
HasCycle(value) ==
  CASE value.t = "ref" -> TRUE
    [] value.t = "array" -> \E i \in 1..Len(value.v) : HasCycle(value.v[i])
    [] value.t = "object" -> \E i \in 1..Len(value.v) : HasCycle(value.v[i][2])
    [] OTHER -> FALSE

-----------------------------------------------------------------------------
(* JSON.stringify.  The text is built as the engine builds it, so that     *)
(* its length is the length the code measures.                             *)

RECURSIVE Spaces(_)
Spaces(n) == IF n <= 0 THEN "" ELSE " " \o Spaces(n - 1)

\* the properties JSON.stringify writes: those whose value is not undefined
RECURSIVE DefinedEntries(_)
DefinedEntries(entries) ==
  IF entries = <<>> THEN <<>>
  ELSE IF Head(entries)[2].t = "undefined" THEN DefinedEntries(Tail(entries))
  ELSE <<Head(entries)>> \o DefinedEntries(Tail(entries))

\* JSON.stringify(value, null, gap) of an acyclic value nested at `level`;
\* gap = 0 is the compact form, an undefined array element is written null
\* the line break and indentation before a line nested at `level`
NewLine(gap, level) == IF gap = 0 THEN "" ELSE "\n" \o Spaces(gap * level)
Colon(gap) == IF gap = 0 THEN ":" ELSE ": "

RECURSIVE JsonText(_, _, _), JsonElems(_, _, _, _), JsonProps(_, _, _, _)
JsonText(value, gap, level) ==
  CASE value.t \in {"null", "undefined"} -> "null"
    [] value.t = "boolean" -> IF value.b THEN "true" ELSE "false"
    [] value.t = "number" -> ToString(value.n)
    [] value.t = "string" -> "\"" \o value.s \o "\""
    [] value.t = "array" ->
         IF value.v = <<>> THEN "[]"
         ELSE JsonElems(value.v, gap, level + 1, "[") \o NewLine(gap, level) \o "]"
    [] value.t = "object" ->
         IF DefinedEntries(value.v) = <<>> THEN "{}"
         ELSE JsonProps(DefinedEntries(value.v), gap, level + 1, "{")
                \o NewLine(gap, level) \o "}"

\* the elements, each on a line of its own, after the text `before`
JsonElems(elems, gap, level, before) ==
  IF elems = <<>> THEN before
  ELSE JsonElems(Tail(elems), gap, level,
                 before \o NewLine(gap, level) \o JsonText(Head(elems), gap, level)
                        \o (IF Len(elems) > 1 THEN "," ELSE ""))

\* the properties, each on a line of its own, after the text `before`
JsonProps(entries, gap, level, before) ==
  IF entries = <<>> THEN before
  ELSE JsonProps(Tail(entries), gap, level,
                 before \o NewLine(gap, level) \o "\"" \o Head(entries)[1] \o "\""
                        \o Colon(gap) \o JsonText(Head(entries)[2], gap, level)
                        \o (IF Len(entries) > 1 THEN "," ELSE ""))

\* what a call of JSON.stringify(value, null, gap) does: it throws a
\* TypeError on a cycle, returns undefined for undefined, a string otherwise
JsonStringify(value, gap) ==
  IF HasCycle(value) THEN [threw |-> TRUE, text |-> None]
  ELSE IF value.t = "undefined" THEN [threw |-> FALSE, text |-> None]
  ELSE [threw |-> FALSE, text |-> Some(JsonText(value, gap, 0))]

-----------------------------------------------------------------------------
(* json-serializer.ts, as the response formatter calls it (no field        *)
(* selection, no maxDepth).                                                *)

\* filterObjectFields(data, {_currentDepth: 0}) with maxDepth = Infinity
\* rebuilds the value node by node
RECURSIVE filterCopy(_)
filterCopy(value) ==
  CASE value.t = "array" -> Arr([i \in 1..Len(value.v) |-> filterCopy(value.v[i])])
    [] value.t = "object" ->
         Obj([i \in 1..Len(value.v) |-> <<value.v[i][1], filterCopy(value.v[i][2])>>])
    [] OTHER -> value

\* on a cycle the recursion never returns: the engine throws a RangeError
\* when the call stack is exhausted
filterObjectFields(value) ==
  IF HasCycle(value) THEN [threw |-> TRUE, val |-> Undefined]
  ELSE [threw |-> FALSE, val |-> filterCopy(value)]

\* JSON.stringify(filterObjectFields(data), null, 2)
stringifyFiltered(filtered) ==
  IF filtered.threw THEN [threw |-> TRUE, text |-> None]
  ELSE JsonStringify(filtered.val, 2)

serializeToJson(value) == stringifyFiltered(filterObjectFields(value))

\* sizeOf(value): a composite that is already in `visited` costs 0, and a
\* reference to an ancestor is such a composite
RECURSIVE sizeOf(_), sizeOfElems(_), sizeOfEntries(_)
sizeOf(value) ==
  CASE value.t = "null" -> 4
    [] value.t = "string" -> Len(value.s) * 2
    [] value.t = "boolean" -> 4
    [] value.t = "number" -> 8
    [] value.t = "undefined" -> 0
    [] value.t = "ref" -> 0
    [] value.t = "array" -> 8 + sizeOfElems(value.v)
    [] value.t = "object" -> 8 + sizeOfEntries(value.v)

sizeOfElems(elems) ==
  IF elems = <<>> THEN 0 ELSE sizeOf(Head(elems)) + sizeOfElems(Tail(elems))

sizeOfEntries(entries) ==
  IF entries = <<>> THEN 0
  ELSE Len(Head(entries)[1]) * 2 + sizeOf(Head(entries)[2])
         + sizeOfEntries(Tail(entries))

approximateObjectSize(obj) ==
  CASE obj.t = "null" -> 4
    [] obj.t = "boolean" -> 4
    [] obj.t = "number" -> 8
    [] obj.t = "string" -> Len(obj.s) * 2
    [] OTHER -> sizeOf(obj)

isObjectTooLarge(obj, maxSizeBytes) == approximateObjectSize(obj) > maxSizeBytes

-----------------------------------------------------------------------------
(* response-formatter.ts: the limits and the Truncator. *)

MAX_RESPONSE_SIZE == 1000000
MAX_ARRAY_ITEMS == 50
MAX_OBJECT_DEPTH == 5
MAX_CHUNK_SIZE == 500000

\* options.field ?? fallback: an absent (undefined) field takes the fallback,
\* every number is used as given
Coalesce(field, fallback) == IF field = None THEN fallback ELSE field[1]

\* options = {}: no field given
NoOptions ==
  [maxResponseSize |-> None, maxArrayItems |-> None,
   maxObjectDepth |-> None, maxChunkSize |-> None]

DepthSentinel == "[Object depth limit exceeded]"
DepthReason == "Maximum object depth exceeded"
ArrayReason == "Array size limit exceeded"
MoreItems(n) == "... " \o ToString(n) \o " more items"

\* the closure variables of formatTruncatedResponse before the walk
NoTruncation == [wasTruncated |-> FALSE, itemsOmitted |-> 0, reason |-> None]

\* OrReason with a slip: reason = text, whatever reason was
NewReason(reason, text) == Some(text)

\* reason = reason || text
OrReason(reason, text) == IF reason = None THEN Some(text) ELSE reason

\* arrayTruncated with a slip: only the first shortened array is counted
arrayTruncatedOnce(acc, omitted) ==
  [wasTruncated |-> TRUE,
   itemsOmitted |-> IF acc.itemsOmitted > 0 THEN acc.itemsOmitted ELSE omitted,
   reason |-> OrReason(acc.reason, ArrayReason)]

\* the closure variables after an array longer than maxArrayItems was met
arrayTruncated(acc, omitted) ==
  [wasTruncated |-> TRUE,
   itemsOmitted |-> acc.itemsOmitted + omitted,
   reason |-> OrReason(acc.reason, ArrayReason)]

\* depthExceeded with a slip: wasTruncated is left as it was
depthExceededUnflagged(acc) ==
  [acc EXCEPT !.reason = OrReason(@, DepthReason)]

\* the closure variables after a value beyond maxObjectDepth was met
depthExceeded(acc) ==
  [acc EXCEPT !.wasTruncated = TRUE, !.reason = OrReason(@, DepthReason)]

\* withEntry with a slip: the object is started anew at every property
withEntryAnew(r, key, h) == [vals |-> <<<<key, h.val>>>>, acc |-> h.acc]

\* r holds the formatted members (vals) and the closure variables after
\* them (acc): the array of the members with `tail` after them, the object
\* of the members, and the members with one more
arrayOf(r, tail) == [val |-> Arr(r.vals \o tail), acc |-> r.acc]
objectOf(r) == [val |-> Obj(r.vals), acc |-> r.acc]
withElem(r, h) == [vals |-> Append(r.vals, h.val), acc |-> h.acc]
withEntry(r, key, h) == [vals |-> Append(r.vals, <<key, h.val>>), acc |-> h.acc]

\* formatValue(value, depth) under the ancestors anc, with the closure
\* variables acc threaded through the walk: the formatted value (val) and
\* the closure variables after it (acc)
RECURSIVE formatValue(_, _, _, _, _)
RECURSIVE formatElems(_, _, _, _, _)
RECURSIVE formatEntries(_, _, _, _, _)
formatValue(value, depth, anc, acc, opts) ==
  LET maxArrayItems == Coalesce(opts.maxArrayItems, MAX_ARRAY_ITEMS)
      maxObjectDepth == Coalesce(opts.maxObjectDepth, MAX_OBJECT_DEPTH)
  IN  IF depth > maxObjectDepth
        THEN [val |-> Str(DepthSentinel), acc |-> depthExceeded(acc)]
      ELSE IF value.t = "ref"
        THEN formatValue(RefTarget(value, anc), depth, RefAncestors(value, anc),
                         acc, opts)
      ELSE IF value.t \in {"null", "undefined"}
        THEN [val |-> value, acc |-> acc]
      ELSE IF value.t = "array"
        THEN LET over == Len(value.v) > maxArrayItems
                 omitted == Len(value.v) - maxArrayItems
             IN  arrayOf(
                   formatElems(
                     IF over THEN JsSlice(value.v, 0, maxArrayItems) ELSE value.v,
                     depth + 1, Append(anc, value),
                     [vals |-> <<>>,
                      acc |-> IF over THEN arrayTruncated(acc, omitted) ELSE acc],
                     opts),
                   IF over THEN <<Str(MoreItems(omitted))>> ELSE <<>>)
      ELSE IF value.t = "object"
        THEN objectOf(formatEntries(value.v, depth + 1, Append(anc, value),
                                    [vals |-> <<>>, acc |-> acc], opts))
      ELSE [val |-> value, acc |-> acc]

\* elems.map(item => formatValue(item, depth)), left to right, after the
\* members r already formatted
formatElems(elems, depth, anc, r, opts) ==
  IF elems = <<>> THEN r
  ELSE formatElems(Tail(elems), depth, anc,
                   withElem(r, formatValue(Head(elems), depth, anc, r.acc, opts)),
                   opts)

\* for (const [key, val] of Object.entries(value)) formattedObj[key] = ...
formatEntries(entries, depth, anc, r, opts) ==
  IF entries = <<>> THEN r
  ELSE formatEntries(Tail(entries), depth, anc,
                     withEntry(r, Head(entries)[1],
                               formatValue(Head(entries)[2], depth, anc, r.acc, opts)),
                     opts)

\* truncationResult with a slip: itemsOmitted is returned as counted
truncationResultCounted(r) ==
  [formattedData |-> r.val,
   metadata |->
     [wasTruncated |-> r.acc.wasTruncated,
      itemsOmitted |-> Some(r.acc.itemsOmitted),
      reason |-> IF r.acc.wasTruncated THEN r.acc.reason ELSE None]]

\* the value formatTruncatedResponse returns after the walk r
truncationResult(r) ==
  [formattedData |-> r.val,
   metadata |->
     [wasTruncated |-> r.acc.wasTruncated,
      itemsOmitted |-> IF r.acc.itemsOmitted > 0
                         THEN Some(r.acc.itemsOmitted) ELSE None,
      reason |-> IF r.acc.wasTruncated THEN r.acc.reason ELSE None]]

formatTruncatedResponse(value, opts) ==
  truncationResult(formatValue(value, 0, <<>>, NoTruncation, opts))

-----------------------------------------------------------------------------
(* response-formatter.ts: the Chunker. *)

\* Buffer.from(text).toString('base64'): an injective encoding of the text
Base64(text) == [base64 |-> text]

\* reading .length of what JSON.stringify returned: of the undefined it
\* returns for undefined, that throws a TypeError
lengthOf(j) ==
  IF j.threw \/ j.text = None THEN [threw |-> TRUE, size |-> 0]
  ELSE [threw |-> FALSE, size |-> Len(j.text[1])]

\* JSON.stringify(x).length
JsonLength(value) == lengthOf(JsonStringify(value, 0))

\* what chunkResponse leaves behind when an exception leaves it
ChunkThrew == [threw |-> TRUE, chunks |-> <<>>, continuationToken |-> None]

\* chunkArrayStep with a slip: the item that closes a chunk is not put in
\* the new one
chunkArrayStepDropsItem(st, item, itemJson, maxChunkSize) ==
  IF itemJson.threw THEN [st EXCEPT !.threw = TRUE]
  ELSE IF st.currentSize + itemJson.size > maxChunkSize /\ Len(st.currentChunk) > 0
    THEN [st EXCEPT !.chunks = Append(@, Arr(st.currentChunk)),
                    !.currentChunk = <<>>,
                    !.currentSize = 0]
  ELSE [st EXCEPT !.currentChunk = Append(@, item),
                  !.currentSize = @ + itemJson.size]

\* the body of the loop over an array's items, itemJson being what
\* JSON.stringify(item).length did: st holds chunks, currentChunk and
\* currentSize (and threw, once an exception left the loop)
chunkArrayStep(st, item, itemJson, maxChunkSize) ==
  IF itemJson.threw THEN [st EXCEPT !.threw = TRUE]
  ELSE IF st.currentSize + itemJson.size > maxChunkSize /\ Len(st.currentChunk) > 0
    THEN [st EXCEPT !.chunks = Append(@, Arr(st.currentChunk)),
                    !.currentChunk = <<item>>,
                    !.currentSize = itemJson.size]
  ELSE [st EXCEPT !.currentChunk = Append(@, item),
                  !.currentSize = @ + itemJson.size]

\* for (const item of data) { ... }
RECURSIVE chunkArrayLoop(_, _, _)
chunkArrayLoop(elems, st, maxChunkSize) ==
  IF elems = <<>> \/ st.threw THEN st
  ELSE chunkArrayLoop(Tail(elems),
                      chunkArrayStep(st, Head(elems), JsonLength(Head(elems)),
                                     maxChunkSize),
                      maxChunkSize)

\* chunks with the current chunk pushed, when it has content
flushed(st) ==
  IF st.currentSize > 0 /\ Len(st.currentChunk) > 0
    THEN Append(st.chunks, Obj(st.currentChunk))
    ELSE st.chunks

\* chunkObjectStep with a slip: an oversized entry is pushed without the
\* current chunk being pushed first, so the pairs waiting in it are lost
chunkObjectStepLosesPending(st, entry, entryJson, maxChunkSize, opts) ==
  IF entryJson.threw THEN [st EXCEPT !.threw = TRUE]
  ELSE IF entryJson.size > maxChunkSize
    THEN [st EXCEPT
            !.chunks =
               Append(st.chunks,
                      formatTruncatedResponse(Obj(<<entry>>), opts).formattedData),
            !.currentChunk = <<>>,
            !.currentSize = 0]
  ELSE IF st.currentSize + entryJson.size > maxChunkSize /\ Len(st.currentChunk) > 0
    THEN [st EXCEPT !.chunks = Append(@, Obj(st.currentChunk)),
                    !.currentChunk = <<entry>>,
                    !.currentSize = entryJson.size]
  ELSE [st EXCEPT !.currentChunk = Append(@, entry),
                  !.currentSize = @ + entryJson.size]

\* the body of the loop over an object's entries, entryJson being what
\* JSON.stringify({ [key]: value }).length did
chunkObjectStep(st, entry, entryJson, maxChunkSize, opts) ==
  IF entryJson.threw THEN [st EXCEPT !.threw = TRUE]
  ELSE IF entryJson.size > maxChunkSize
    THEN [st EXCEPT
            !.chunks =
               Append(flushed(st),
                      formatTruncatedResponse(Obj(<<entry>>), opts).formattedData),
            !.currentChunk = <<>>,
            !.currentSize = 0]
  ELSE IF st.currentSize + entryJson.size > maxChunkSize /\ Len(st.currentChunk) > 0
    THEN [st EXCEPT !.chunks = Append(@, Obj(st.currentChunk)),
                    !.currentChunk = <<entry>>,
                    !.currentSize = entryJson.size]
  ELSE [st EXCEPT !.currentChunk = Append(@, entry),
                  !.currentSize = @ + entryJson.size]

\* for (const [key, value] of entries) { ... }
RECURSIVE chunkObjectLoop(_, _, _, _)
chunkObjectLoop(entries, st, maxChunkSize, opts) ==
  IF entries = <<>> \/ st.threw THEN st
  ELSE chunkObjectLoop(Tail(entries),
                       chunkObjectStep(st, Head(entries),
                                       JsonLength(Obj(<<Head(entries)>>)),
                                       maxChunkSize, opts),
                       maxChunkSize, opts)

ChunkStart ==
  [threw |-> FALSE, chunks |-> <<>>, currentChunk |-> <<>>, currentSize |-> 0]

\* JSON.stringify({ type: 'array', total }) and
\* JSON.stringify({ type: 'object', keys }), base64-encoded
ArrayToken(total) ==
  Base64(JsonText(Obj(<< <<"type", Str("array")>>, <<"total", Num(total)>> >>), 0, 0))
ObjectToken(keys) ==
  Base64(JsonText(Obj(<< <<"type", Str("object")>>,
                         <<"keys", Arr([i \in 1..Len(keys) |-> Str(keys[i])])>> >>), 0, 0))

\* the chunks after the loop: the last chunk is pushed when it has content
closedArray(st) ==
  IF Len(st.currentChunk) > 0 THEN Append(st.chunks, Arr(st.currentChunk))
  ELSE st.chunks
closedObject(st) ==
  IF Len(st.currentChunk) > 0 THEN Append(st.chunks, Obj(st.currentChunk))
  ELSE st.chunks

\* chunked with a slip: the token is given as soon as there is a chunk
chunkedWithToken(chunks, token) ==
  [threw |-> FALSE, chunks |-> chunks,
   continuationToken |-> IF Len(chunks) >= 1 THEN Some(token) ELSE None]

\* the return statement: the token only when there are several chunks
chunked(chunks, token) ==
  [threw |-> FALSE, chunks |-> chunks,
   continuationToken |-> IF Len(chunks) > 1 THEN Some(token) ELSE None]

arrayChunks(st, total) ==
  IF st.threw THEN ChunkThrew ELSE chunked(closedArray(st), ArrayToken(total))
objectChunks(st, keys) ==
  IF st.threw THEN ChunkThrew ELSE chunked(closedObject(st), ObjectToken(keys))

chunkResponse(value, opts) ==
  LET maxChunkSize == Coalesce(opts.maxChunkSize, MAX_CHUNK_SIZE)
  IN  IF ~IsObjectType(value) \/ value.t = "null"
        THEN [threw |-> FALSE, chunks |-> <<value>>, continuationToken |-> None]
      ELSE IF value.t = "array"
        THEN arrayChunks(chunkArrayLoop(value.v, ChunkStart, maxChunkSize),
                         Len(value.v))
      ELSE objectChunks(chunkObjectLoop(value.v, ChunkStart, maxChunkSize, opts),
                        [i \in 1..Len(value.v) |-> value.v[i][1]])

-----------------------------------------------------------------------------
(* response-formatter.ts: the orchestrator. *)

\* exceeds with a slip: the catch block answers false
exceedsUnlessThrew(jsonString, maxSize) ==
  IF jsonString.threw \/ jsonString.text = None THEN FALSE
  ELSE Len(jsonString.text[1]) > maxSize

\* jsonString.length > maxSize; an exception of serializeToJson, or of
\* reading .length of undefined, is caught and answered true
exceeds(jsonString, maxSize) ==
  IF jsonString.threw \/ jsonString.text = None THEN TRUE
  ELSE Len(jsonString.text[1]) > maxSize

needsChunking(value, opts) ==
  LET maxSize == Coalesce(opts.maxResponseSize, MAX_RESPONSE_SIZE)
  IN  IF isObjectTooLarge(value, maxSize) THEN TRUE
      ELSE exceeds(serializeToJson(value), maxSize)

\* typeof formattedData === 'object' ? JSON.stringify(formattedData, null, 2)
\*                                    : String(formattedData)
\* of a value formatValue returned (a tree)
formattedString(formattedData) ==
  CASE formattedData.t \in {"null", "array", "object"} -> JsonText(formattedData, 2, 0)
    [] formattedData.t = "string" -> formattedData.s
    [] formattedData.t = "number" -> ToString(formattedData.n)
    [] formattedData.t = "boolean" -> IF formattedData.b THEN "true" ELSE "false"
    [] formattedData.t = "undefined" -> "undefined"

\* a ChunkedToolCallResult around what formatTruncatedResponse returned (f):
\* content[0].text, the optional chunk fields, and metadata.truncation only
\* when f was truncated
Fragment(f, isChunked, chunkIndex, totalChunks, token) ==
  [text |-> formattedString(f.formattedData), isChunked |-> isChunked,
   chunkIndex |-> chunkIndex, totalChunks |-> totalChunks,
   continuationToken |-> token,
   metadata |-> IF f.metadata.wasTruncated THEN Some(f.metadata) ELSE None]

\* singleResult with a slip: the Truncation Record is attached whether or
\* not anything was truncated
recorded(f) ==
  [text |-> formattedString(f.formattedData), isChunked |-> None,
   chunkIndex |-> None, totalChunks |-> None, continuationToken |-> None,
   metadata |-> Some(f.metadata)]
singleResultRecorded(value, opts) ==
  recorded(formatTruncatedResponse(value, opts))

\* the result built when no chunking is needed
singleResult(value, opts) ==
  Fragment(formatTruncatedResponse(value, opts), None, None, None, None)

\* chunkResult with a slip: the chunk is written as it is, without the
\* truncation pass over it
chunkResultUntruncated(chunk, index, total, continuationToken, opts) ==
  [text |-> formattedString(chunk), isChunked |-> Some(TRUE),
   chunkIndex |-> Some(index), totalChunks |-> Some(total),
   continuationToken |-> IF index = total - 1 /\ continuationToken # None
                           THEN continuationToken ELSE None,
   metadata |-> None]

\* the callback of chunks.map((chunk, index) => ...); index is 0-based
chunkResult(chunk, index, total, continuationToken, opts) ==
  Fragment(formatTruncatedResponse(chunk, opts), Some(TRUE), Some(index),
           Some(total),
           IF index = total - 1 /\ continuationToken # None
             THEN continuationToken ELSE None)

\* chunkResults with a slip: the chunks are numbered from 1
chunkResultsFromOne(c, opts) ==
  IF c.threw THEN [threw |-> TRUE, results |-> <<>>]
  ELSE [threw |-> FALSE,
        results |->
          [i \in 1..Len(c.chunks) |->
             chunkResult(c.chunks[i], i, Len(c.chunks),
                         c.continuationToken, opts)]]

\* chunks.map(...) over what chunkResponse returned (c); there is no try
\* block, so an exception of chunkResponse leaves formatChunkedResponse
chunkResults(c, opts) ==
  IF c.threw THEN [threw |-> TRUE, results |-> <<>>]
  ELSE [threw |-> FALSE,
        results |->
          [i \in 1..Len(c.chunks) |->
             chunkResult(c.chunks[i], i - 1, Len(c.chunks),
                         c.continuationToken, opts)]]

formatChunkedResponse(value, opts) ==
  IF ~needsChunking(value, opts)
    THEN [threw |-> FALSE, results |-> <<singleResult(value, opts)>>]
  ELSE chunkResults(chunkResponse(value, opts), opts)

\* the message, when given and not empty, is put before the first text
withMessage(r, msg) ==
  IF r.threw THEN r
  ELSE IF msg # None /\ msg[1] # "" /\ Len(r.results) > 0
    THEN [r EXCEPT !.results[1].text = msg[1] \o "\n\n" \o @]
  ELSE r

createSuccessResponse(value, msg, opts) ==
  withMessage(formatChunkedResponse(value, opts), msg)

\* an Error object of the given name and message
ErrorObject(name, msg) == [t |-> "error", name |-> name, message |-> msg]

\* the ChunkedToolCallResult of an error: content[0].text and isError, and
\* no other field
errorResult(text) ==
  [text |-> text, isError |-> Some(TRUE), isChunked |-> None,
   chunkIndex |-> None, totalChunks |-> None, continuationToken |-> None,
   metadata |-> None]

\* createErrorResponse with a slip: an Error object is written whole,
\* String(error), and not its message
createErrorResponseWhole(error) ==
  errorResult(IF error.t = "error"
                THEN (IF error.message = "" THEN error.name
                      ELSE error.name \o ": " \o error.message)
                ELSE error.s)

\* error instanceof Error ? error.message : error
createErrorResponse(error) ==
  errorResult(IF error.t = "error" THEN error.message ELSE error.s)

-----------------------------------------------------------------------------
(* pagination.ts: paginateResults.  A parameter is None when it is          *)
(* undefined and Some(n) when it is the number n.                          *)

DEFAULT_LIMIT == 10

\* params.offset !== undefined ? Number(params.offset) : 0, and the limit
requestedOffset(ps) == IF ps.offset # None THEN ps.offset[1] ELSE 0
requestedLimit(ps) == IF ps.limit # None THEN ps.limit[1] ELSE DEFAULT_LIMIT

\* validLimit with a slip: the smallest limit is 0
validLimitFromZero(limit) == Max(0, limit)

\* Math.max(0, Math.min(offset, total)) and Math.max(1, limit)
validOffset(offset, total) == Max(0, Min(offset, total))
validLimit(limit) == Max(1, limit)

\* paginatedItems with a slip: the end of the slice is the limit
paginatedItemsToLimit(list, offset, limit) == JsSlice(list, offset, limit)

\* items.slice(validOffset, validOffset + validLimit)
paginatedItems(list, offset, limit) == JsSlice(list, offset, offset + limit)

\* hasMore with a slip: a page that ends at the last item has more
hasMoreAtEnd(offset, limit, total) == offset + limit <= total

\* prevOffset with a slip: the previous offset is not kept at 0 or above
prevOffsetBelowZero(offset, limit) ==
  IF offset > 0 THEN Some(offset - limit) ELSE None

\* nextOffset with a slip: the next page starts one item on
nextOffsetByOne(offset, limit, total) ==
  IF offset + limit < total THEN Some(offset + 1) ELSE None

hasMore(offset, limit, total) == offset + limit < total
nextOffset(offset, limit, total) ==
  IF offset + limit < total THEN Some(offset + limit) ELSE None
prevOffset(offset, limit) ==
  IF offset > 0 THEN Some(Max(0, offset - limit)) ELSE None

\* the return statement, over the valid offset and limit
paginated(list, offset, limit, total) ==
  [data |-> paginatedItems(list, offset, limit),
   pagination |->
     [offset |-> offset, limit |-> limit, total |-> total,
      hasMore |-> hasMore(offset, limit, total),
      nextOffset |-> nextOffset(offset, limit, total),
      prevOffset |-> prevOffset(offset, limit)]]

paginateResults(list, ps) ==
  paginated(list, validOffset(requestedOffset(ps), Len(list)),
            validLimit(requestedLimit(ps)), Len(list))

-----------------------------------------------------------------------------
(* The inputs of the calls. *)

\* all sequences over S of length at most n
SeqsUpTo(S, n) == UNION {[1..k -> S] : k \in 0..n}

\* property names in insertion order (none is an integer index, none is
\* __proto__)
Keys == <<"a", "bb", "c", "dd", "e", "ff">>

\* the object whose i-th property, in insertion order, is Keys[i]: vals[i]
ObjOf(vals) == Obj([i \in 1..Len(vals) |-> <<Keys[i], vals[i]>>])

\* o = {}; o.self = o
Circular == Obj(<< <<"self", Ref(1)>> >>)

Scalars == {Null, Num(1), Str("ab")}

\* what a top-level array or mapping holds: scalars, an array, nested
\* composites two levels deep, and an object that refers to itself
Elems ==
  Scalars \cup
  { Arr(<<Num(1), Num(1)>>),
    Arr(<<Num(1), Num(1), Str("ab")>>),
    Obj(<< <<"k", Arr(<<Num(1), Num(1)>>)>> >>),
    Circular }

Values ==
  Scalars \cup {Undefined, Bool(TRUE)}
    \cup {Arr(s) : s \in SeqsUpTo(Elems, MaxLen)}
    \cup {ObjOf(s) : s \in SeqsUpTo(Elems, MaxLen)}

\* an optional limit: absent, or one of the numbers ns
Optional(ns) == {None} \cup {Some(n) : n \in ns}

Idle ==
  /\ message = None
  /\ items = <<>>
  /\ params = None

\* no HTTP server is running and no caller is gathering pages
NoServer ==
  /\ allItems = <<>>
  /\ mcpApiKey = None
  /\ transports = {}
  /\ connections = {}
  /\ sessions = 0
  /\ posts = {}
  /\ req = None
  /\ res = None

-----------------------------------------------------------------------------
(* The Truncator alone: formatTruncatedResponse(data, options), and a      *)
(* second pass over what the first returned.                               *)

TruncateOptions ==
  [maxResponseSize : {None}, maxArrayItems : Optional(-1..2),
   maxObjectDepth : Optional(-1..2), maxChunkSize : {None}]

TruncateInit ==
  /\ NoServer
  /\ data \in Values
  /\ options \in TruncateOptions
  /\ pc = "start"
  /\ ret = None
  /\ prev = None
  /\ Idle

FormatTruncatedResponse ==
  /\ pc = "start"
  /\ pc' = "formatTruncatedResponse"
  /\ ret' = formatTruncatedResponse(data, options)
  /\ prev' = ret
  /\ UNCHANGED <<data, options, message, items, params, allItems>>
  /\ UNCHANGED server

FormatTruncatedResponseAgain ==
  /\ pc = "formatTruncatedResponse"
  /\ pc' = "formatTruncatedResponse2"
  /\ ret' = formatTruncatedResponse(ret.formattedData, options)
  /\ prev' = ret
  /\ UNCHANGED <<data, options, message, items, params, allItems>>
  /\ UNCHANGED server

TruncateNext == FormatTruncatedResponse \/ FormatTruncatedResponseAgain

TruncateSpec == TruncateInit /\ [][TruncateNext]_vars

-----------------------------------------------------------------------------
(* The Chunker alone: chunkResponse(data, options). *)

ChunkOptions ==
  [maxResponseSize : {None}, maxArrayItems : Optional({1, 2}),
   maxObjectDepth : Optional({1, 2}), maxChunkSize : Optional({2, 5, 8, 16})]

ChunkInit ==
  /\ NoServer
  /\ data \in Values
  /\ options \in ChunkOptions
  /\ pc = "start"
  /\ ret = None
  /\ prev = None
  /\ Idle

ChunkResponse ==
  /\ pc = "start"
  /\ pc' = "chunkResponse"
  /\ ret' = chunkResponse(data, options)
  /\ prev' = ret
  /\ UNCHANGED <<data, options, message, items, params, allItems>>
  /\ UNCHANGED server

ChunkNext == ChunkResponse

ChunkSpec == ChunkInit /\ [][ChunkNext]_vars

-----------------------------------------------------------------------------
(* The orchestrator: needsChunking, formatChunkedResponse and              *)
(* createSuccessResponse on data, options and message.                     *)

\* { name: 'circular', self: <the object itself> }, the object of the
\* needsChunking test
CircularObj == Obj(<< <<"name", Str("circular")>>, <<"self", Ref(1)>> >>)

FormatOptions ==
  [maxResponseSize : Optional({5, 40}), maxArrayItems : Optional({2}),
   maxObjectDepth : Optional({1}),
   maxChunkSize : {Some(5), Some(12)}]

FormatInit ==
  /\ NoServer
  /\ data \in Values \cup {CircularObj}
  /\ options \in FormatOptions
  /\ message \in {None, Some("Done")}
  /\ items = <<>>
  /\ params = None
  /\ pc = "start"
  /\ ret = None
  /\ prev = None

NeedsChunking ==
  /\ pc = "start"
  /\ message = None
  /\ pc' = "needsChunking"
  /\ ret' = needsChunking(data, options)
  /\ prev' = ret
  /\ UNCHANGED <<data, options, message, items, params, allItems>>
  /\ UNCHANGED server

FormatChunkedResponse ==
  /\ pc = "start"
  /\ message = None
  /\ pc' = "formatChunkedResponse"
  /\ ret' = formatChunkedResponse(data, options)
  /\ prev' = ret
  /\ UNCHANGED <<data, options, message, items, params, allItems>>
  /\ UNCHANGED server

CreateSuccessResponse ==
  /\ pc = "start"
  /\ pc' = "createSuccessResponse"
  /\ ret' = createSuccessResponse(data, message, options)
  /\ prev' = ret
  /\ UNCHANGED <<data, options, message, items, params, allItems>>
  /\ UNCHANGED server

FormatNext == NeedsChunking \/ FormatChunkedResponse \/ CreateSuccessResponse

FormatSpec == FormatInit /\ [][FormatNext]_vars

-----------------------------------------------------------------------------
(* The Paginator: paginateResults(items, params). *)

\* the array of n distinct items
ItemList(n) == [i \in 1..n |-> 100 + i]

PaginateInit ==
  /\ NoServer
  /\ items \in {ItemList(n) : n \in 0..MaxItems}
  /\ params \in [offset : Optional(-2..(MaxItems + 2)),
                 limit : Optional(-1..(MaxItems + 1))]
  /\ data = Null
  /\ options = NoOptions
  /\ message = None
  /\ pc = "start"
  /\ ret = None
  /\ prev = None

PaginateResults ==
  /\ pc = "start"
  /\ pc' = "paginateResults"
  /\ ret' = paginateResults(items, params)
  /\ prev' = ret
  /\ UNCHANGED <<data, options, message, items, params, allItems>>
  /\ UNCHANGED server

PaginateNext == PaginateResults

PaginateSpec == PaginateInit /\ [][PaginateNext]_vars

-----------------------------------------------------------------------------
(* The traversal of all pages, as the getAllItems example walks them: the   *)
(* offset starts at 0, the limit is fixed, and each call takes the          *)
(* nextOffset of the one before until there is none.                        *)

TraverseInit ==
  /\ NoServer
  /\ items \in {ItemList(n) : n \in 0..MaxItems}
  /\ params \in [offset : {Some(0)}, limit : Optional(-1..(MaxItems + 1))]
  /\ data = Null
  /\ options = NoOptions
  /\ message = None
  /\ pc = "getAllItems"
  /\ ret = None
  /\ prev = None

\* the state of the loop after the call that returned result
pageTaken(result) ==
  /\ ret' = result
  /\ allItems' = allItems \o result.data
  /\ IF result.pagination.hasMore /\ result.pagination.nextOffset # None
       THEN /\ pc' = "getAllItems"
            /\ params' = [params EXCEPT !.offset = result.pagination.nextOffset]
       ELSE /\ pc' = "done"
            /\ params' = params

\* one turn of the while loop
NextPage ==
  /\ pc = "getAllItems"
  /\ pageTaken(paginateResults(items, params))
  /\ prev' = ret
  /\ UNCHANGED <<data, options, message, items>>
  /\ UNCHANGED server

\* return allItems: what getAllItems returns is allItems as it is now
ReturnAllItems ==
  /\ pc = "done"
  /\ pc' = "returned"
  /\ UNCHANGED <<ret, prev>>
  /\ UNCHANGED <<data, options, message, items, params, allItems>>
  /\ UNCHANGED server

TraverseNext == NextPage \/ ReturnAllItems

\* the loop is sequential code: a step that can be taken is taken
TraverseSpec ==
  TraverseInit /\ [][TraverseNext]_vars /\ WF_vars(TraverseNext)

-----------------------------------------------------------------------------
(* The error formatter: createErrorResponse(error). *)

\* the text of n characters
RECURSIVE Filled(_)
Filled(n) == IF n <= 0 THEN "" ELSE "x" \o Filled(n - 1)

\* message strings and Error objects, of every length up to MaxMessage
Errors ==
  {Str(Filled(n)) : n \in 0..MaxMessage}
    \cup {ErrorObject(name, Filled(n)) :
            name \in {"Error", "TypeError"}, n \in 0..MaxMessage}

ErrorInit ==
  /\ NoServer
  /\ data \in Errors
  /\ options = NoOptions
  /\ pc = "start"
  /\ ret = None
  /\ prev = None
  /\ Idle

CreateErrorResponse ==
  /\ pc = "start"
  /\ pc' = "createErrorResponse"
  /\ ret' = createErrorResponse(data)
  /\ prev' = ret
  /\ UNCHANGED <<data, options, message, items, params, allItems>>
  /\ UNCHANGED server

ErrorNext == CreateErrorResponse

ErrorSpec == ErrorInit /\ [][ErrorNext]_vars

-----------------------------------------------------------------------------
(* middleware/auth.ts: authenticateSseRequest.  A text of a request is a    *)
(* sequence of pieces: the word "Bearer", a blank " ", or any other piece; *)
(* a header or parameter is None when the request does not have it.        *)

\* the text after the blanks it starts with
RECURSIVE SkipBlanks(_)
SkipBlanks(text) ==
  IF text # <<>> /\ Head(text) = " " THEN SkipBlanks(Tail(text)) ELSE text

\* authHeader.replace(/Bearer\s+/g, ''): every "Bearer" that has blanks
\* after it goes, with its blanks, wherever it is in the text
RECURSIVE StripBearer(_)
StripBearer(text) ==
  IF text = <<>> THEN <<>>
  ELSE IF Head(text) = "Bearer" /\ Len(text) >= 2 /\ text[2] = " "
    THEN StripBearer(SkipBlanks(Tail(text)))
  ELSE <<Head(text)>> \o StripBearer(Tail(text))

\* null when there is no header (or an empty one), the stripped header
\* otherwise
bearerToken(authHeader) ==
  IF authHeader = None \/ authHeader[1] = <<>> THEN None
  ELSE Some(StripBearer(authHeader[1]))

\* whether authenticateSseRequest calls next(): it does when no key is
\* configured, and when the bearer token or the api_key parameter is the key
authenticated(key, request) ==
  IF key = None \/ key[1] = <<>> THEN TRUE
  ELSE bearerToken(request.authorization) = key \/ request.api_key = key

\* an answer: the status and JSON-RPC error code written by the server
\* (None when the transport is to write them), the handler that ran, and
\* the session the request was forwarded to
Answer(status, code, handler, forwarded) ==
  [status |-> status, code |-> code, handler |-> handler,
   forwarded |-> forwarded]

\* res.status(401).json({ error: { code: -32001, ... } })
Unauthorized == Answer(Some(401), Some(-32001), "none", None)

-----------------------------------------------------------------------------
(* transports/sse.ts: createSseServer, and the mount of                    *)
(* transports/streamable.ts.                                               *)

\* the session id the n-th SSEServerTransport gives itself
SessionId(n) == "session-" \o ToString(n)

\* names every object inherits from Object.prototype
Inherited == {"constructor"}

\* res.status(400).json(...) and res.status(500).json(...) of /messages
InvalidSession == Answer(Some(400), Some(-32000), "messages", None)
ErrorHandling == Answer(Some(500), Some(-32000), "messages", None)

\* the answer of the /messages handler: transports[sessionId] is read from
\* a plain object, so it is the transport of a registered session,
\* something that is no transport for an inherited name (the call of
\* handlePostMessage then throws inside the try block), or undefined
messagesAnswer(map, sessionId) ==
  IF sessionId = None \/ sessionId[1] = "" THEN InvalidSession
  ELSE IF sessionId[1] \in map
    THEN Answer(None, None, "messages", sessionId)
  ELSE IF sessionId[1] \in Inherited THEN ErrorHandling
  ELSE InvalidSession

Request(method, path, authorization, api_key, sessionId) ==
  [method |-> method, path |-> path, authorization |-> authorization,
   api_key |-> api_key, sessionId |-> sessionId]

\* the configured key and another text
Key == <<"k">>
Headers ==
  {None, Some(Key),
   Some(<<"Bearer", " ">> \o Key), Some(<<"Bearer", " ", "x">>),
   Some(<<"Bearer", " ", "Bearer", " ", " ">> \o Key),
   Some(Key \o <<"Bearer", " ">>)}
ApiKeys == {None, Some(Key), Some(<<"x">>)}
SessionIds ==
  {None, Some(""), Some("unknown"), Some("constructor")}
    \cup {Some(SessionId(n)) : n \in 1..MaxSessions}

SseInit ==
  /\ mcpApiKey \in {None, Some(<<>>), Some(Key)}
  /\ transports = {}
  /\ connections = {}
  /\ sessions = 0
  /\ posts = {}
  /\ req = None
  /\ res = None
  /\ allItems = <<>>
  /\ data = Null
  /\ options = NoOptions
  /\ pc = "start"
  /\ ret = None
  /\ prev = None
  /\ Idle

\* GET /sse and GET /mcp: a request that is let through gets a new
\* transport, stored under its session id
GetSse ==
  \E path \in {"/sse", "/mcp"}, authorization \in Headers, api_key \in ApiKeys :
    /\ req' = Request("GET", path, authorization, api_key, None)
    /\ IF authenticated(mcpApiKey, req')
         THEN /\ sessions < MaxSessions
              /\ sessions' = sessions + 1
              /\ transports' = transports \cup {SessionId(sessions')}
              /\ connections' = connections \cup {SessionId(sessions')}
              /\ res' = Answer(Some(200), None, "sse", Some(SessionId(sessions')))
         ELSE /\ res' = Unauthorized
              /\ UNCHANGED <<transports, connections, sessions>>
    /\ pc' = "getSse"
    /\ UNCHANGED <<mcpApiKey, posts>>
    /\ UNCHANGED <<data, options, message, items, params, ret, prev, allItems>>

\* res.on('close'): the connection of a session closes
Close ==
  \E sessionId \in connections :
    /\ connections' = connections \ {sessionId}
    /\ transports' = transports \ {sessionId}
    /\ req' = None
    /\ res' = None
    /\ pc' = "close"
    /\ UNCHANGED <<mcpApiKey, sessions, posts>>
    /\ UNCHANGED <<data, options, message, items, params, ret, prev, allItems>>

\* POST /messages up to the call of transport.handlePostMessage
PostMessages ==
  \E authorization \in Headers, api_key \in ApiKeys, sessionId \in SessionIds :
    /\ req' = Request("POST", "/messages", authorization, api_key, sessionId)
    /\ res' = IF authenticated(mcpApiKey, req')
                THEN messagesAnswer(transports, sessionId)
                ELSE Unauthorized
    /\ IF res'.forwarded # None
         THEN /\ Cardinality(posts) < MaxPosts
              /\ posts' = posts \cup {sessionId[1]}
         ELSE UNCHANGED posts
    /\ pc' = "postMessages"
    /\ UNCHANGED <<mcpApiKey, transports, connections, sessions>>
    /\ UNCHANGED <<data, options, message, items, params, ret, prev, allItems>>

\* handlePostMessage settles: the transport has answered the request, or
\* it threw and the catch block answered in its place
PostHandled ==
  \E sessionId \in posts :
    /\ posts' = posts \ {sessionId}
    /\ req' = None
    /\ res' = None
    /\ pc' = "postHandled"
    /\ UNCHANGED <<mcpApiKey, transports, connections, sessions>>
    /\ UNCHANGED <<data, options, message, items, params, ret, prev, allItems>>

\* the /mcp mount of the Streamable HTTP server, which keeps no map of
\* transports
StreamableMcp ==
  \E method \in {"GET", "POST"}, authorization \in Headers, api_key \in ApiKeys :
    /\ sessions = 0
    /\ req' = Request(method, "/mcp", authorization, api_key, None)
    /\ res' = IF authenticated(mcpApiKey, req')
                THEN Answer(None, None, "streamable", None)
                ELSE Unauthorized
    /\ pc' = "streamableMcp"
    /\ UNCHANGED <<mcpApiKey, transports, connections, sessions, posts>>
    /\ UNCHANGED <<data, options, message, items, params, ret, prev, allItems>>

SseNext ==
  \/ GetSse
  \/ Close
  \/ PostMessages
  \/ PostHandled
  \/ StreamableMcp

SseSpec == SseInit /\ [][SseNext]_vars

-----------------------------------------------------------------------------
(* json-serializer.ts: approximateObjectSize on a value graph.  The graph   *)
(* is a heap of composites, heap[n] being the array or object of identity   *)
(* n; a slot holds a scalar or Ptr(n), the reference to composite n, so     *)
(* that one composite may be held by several slots (shared) or by a slot    *)
(* of its own descendant (a cycle).                                         *)

Ptr(n) == [t |-> "ptr", n |-> n]

\* key.length * 2 with a slip: one byte a character
keyCostNarrow(key) == Len(key)

\* key.length * 2
keyCost(key) == Len(key) * 2

\* if (visited.has(value)) return 0, with a slip: the header is counted
revisitHeader(value) == 8

\* if (visited.has(value)) return 0
revisit(value) == 0

\* the running total and the visited set after one more slot was measured
measured(acc, cost, slot) ==
  [size |-> acc.size + cost + slot.size, visited |-> slot.visited]

\* sizeOf(value) with the set `visited` as it is before and after the call
RECURSIVE sizeOfGraph(_, _, _), sizeOfSlots(_, _, _, _)
sizeOfGraph(heap, value, visited) ==
  CASE value.t = "null" -> [size |-> 4, visited |-> visited]
    [] value.t = "string" -> [size |-> Len(value.s) * 2, visited |-> visited]
    [] value.t = "boolean" -> [size |-> 4, visited |-> visited]
    [] value.t = "number" -> [size |-> 8, visited |-> visited]
    [] value.t = "undefined" -> [size |-> 0, visited |-> visited]
    [] value.t = "ptr" ->
         IF value.n \in visited
           THEN [size |-> revisit(value), visited |-> visited]
           ELSE sizeOfSlots(heap, heap[value.n], 1,
                            [size |-> 8, visited |-> visited \cup {value.n}])

\* the loop over the elements of an array, or the own properties of an object
sizeOfSlots(heap, node, i, acc) ==
  IF i > Len(node.v) THEN acc
  ELSE IF node.t = "array"
    THEN sizeOfSlots(heap, node, i + 1,
           measured(acc, 0, sizeOfGraph(heap, node.v[i], acc.visited)))
    ELSE sizeOfSlots(heap, node, i + 1,
           measured(acc, keyCost(node.v[i][1]),
                    sizeOfGraph(heap, node.v[i][2], acc.visited)))

\* approximateObjectSize(obj): visited = new Set() for this call
approximateGraphSize(heap, obj) ==
  CASE obj.t = "null" -> 4
    [] obj.t = "boolean" -> 4
    [] obj.t = "number" -> 8
    [] obj.t = "string" -> Len(obj.s) * 2
    [] OTHER -> sizeOfGraph(heap, obj, {}).size

\* what a slot of a composite holds
Slots == {Null, Num(1), Str("ab")} \cup {Ptr(n) : n \in 1..MaxNodes}

\* composite n is an object when n is odd and an array when n is even
Composite(n, slots) == IF n % 2 = 1 THEN ObjOf(slots) ELSE Arr(slots)

Heaps ==
  {[n \in 1..MaxNodes |-> Composite(n, slots[n])] :
     slots \in [1..MaxNodes -> SeqsUpTo(Slots, 2)]}

\* the heap of a call on a scalar
NoHeap == [n \in 1..MaxNodes |-> Composite(n, <<>>)]

Graphs ==
  {[heap |-> h, obj |-> Ptr(n)] : h \in Heaps, n \in 1..MaxNodes}
    \cup {[heap |-> NoHeap, obj |-> s] :
            s \in {Null, Undefined, Bool(TRUE), Num(1), Str("ab")}}

SizeInit ==
  /\ NoServer
  /\ data \in Graphs
  /\ options = NoOptions
  /\ pc = "start"
  /\ ret = None
  /\ prev = None
  /\ Idle

ApproximateObjectSize ==
  /\ pc = "start"
  /\ pc' = "approximateObjectSize"
  /\ ret' = approximateGraphSize(data.heap, data.obj)
  /\ prev' = ret
  /\ UNCHANGED <<data, options, message, items, params, allItems>>
  /\ UNCHANGED server

\* a second call on the same graph
ApproximateObjectSizeAgain ==
  /\ pc = "approximateObjectSize"
  /\ pc' = "approximateObjectSize2"
  /\ ret' = approximateGraphSize(data.heap, data.obj)
  /\ prev' = ret
  /\ UNCHANGED <<data, options, message, items, params, allItems>>
  /\ UNCHANGED server

SizeNext == ApproximateObjectSize \/ ApproximateObjectSizeAgain

SizeSpec == SizeInit /\ [][SizeNext]_vars

-----------------------------------------------------------------------------
(* Claims. *)

\* every limit given is a positive integer, as the Limit Configuration is
PositiveLimits(opts) ==
  \A f \in DOMAIN opts : opts[f] = None \/ opts[f][1] > 0

\* C1: truncating an already truncated value with the same (positive)
\* limits returns that value unchanged and reports wasTruncated = false.
C1_TruncationIdempotent ==
  (pc = "formatTruncatedResponse2" /\ PositiveLimits(options)) =>
    /\ ret.formattedData = prev.formattedData
    /\ ~ret.metadata.wasTruncated

\* the elements of the array chunks, or the pairs of the mapping chunks,
\* one after the other in chunk order
RECURSIVE Concatenated(_)
Concatenated(chunks) ==
  IF chunks = <<>> THEN <<>> ELSE Head(chunks).v \o Concatenated(Tail(chunks))

\* the number of elements in the first n chunks
RECURSIVE LengthBefore(_, _)
LengthBefore(chunks, n) ==
  IF n = 0 THEN 0 ELSE LengthBefore(chunks, n - 1) + Len(chunks[n].v)

ChunkedArray == pc = "chunkResponse" /\ ~ret.threw /\ data.t = "array"
ChunkedObject == pc = "chunkResponse" /\ ~ret.threw /\ data.t = "object"

\* C2: the chunks of an array are contiguous slices of it, and concatenated
\* in chunk order they are the array.
C2_ArrayRoundTrip ==
  ChunkedArray =>
    /\ \A i \in 1..Len(ret.chunks) :
         /\ ret.chunks[i].t = "array"
         /\ ret.chunks[i].v =
              SubSeq(data.v, LengthBefore(ret.chunks, i - 1) + 1,
                     LengthBefore(ret.chunks, i))
    /\ Concatenated(ret.chunks) = data.v

\* an array was split into several chunks, one of them with several elements
C2_Witness ==
  /\ ChunkedArray
  /\ Len(ret.chunks) >= 2
  /\ \E i \in 1..Len(ret.chunks) : Len(ret.chunks[i].v) >= 2

\* C3, as claimed: the pairs of the chunks of a mapping, merged in chunk
\* order, are exactly the pairs of the mapping, with their original values.
C3_PairsUnaltered ==
  ChunkedObject =>
    /\ \A i \in 1..Len(ret.chunks) : ret.chunks[i].t = "object"
    /\ Concatenated(ret.chunks) = data.v

\* the serialized size of the pair alone, as chunkResponse measures it
EntrySize(entry) == Len(JsonText(Obj(<<entry>>), 0, 0))

\* a chunk as the list of its pairs, each as an object of its own; a chunk
\* that is no object stands for itself
Singletons(chunk) ==
  IF chunk.t = "object" THEN [i \in 1..Len(chunk.v) |-> Obj(<<chunk.v[i]>>)]
  ELSE <<chunk>>

RECURSIVE Flattened(_)
Flattened(chunks) ==
  IF chunks = <<>> THEN <<>>
  ELSE Singletons(Head(chunks)) \o Flattened(Tail(chunks))

\* C3, amended: in chunk order the chunks hold the pairs of the mapping in
\* their original order, none lost and none repeated; a pair whose own
\* serialized size is within maxChunkSize keeps its value, and a pair whose
\* size exceeds it is replaced by formatTruncatedResponse({key: value}),
\* which keeps the key when maxObjectDepth >= 0.
C3_PairsKeptOversizedTruncated ==
  ChunkedObject =>
    LET maxChunkSize == Coalesce(options.maxChunkSize, MAX_CHUNK_SIZE)
        flat == Flattened(ret.chunks)
    IN  /\ Len(flat) = Len(data.v)
        /\ \A i \in 1..Len(data.v) :
             IF EntrySize(data.v[i]) > maxChunkSize
               THEN /\ flat[i] =
                         formatTruncatedResponse(Obj(<<data.v[i]>>), options).formattedData
                    /\ \E j \in 1..Len(ret.chunks) : ret.chunks[j] = flat[i]
                    /\ Coalesce(options.maxObjectDepth, MAX_OBJECT_DEPTH) >= 0
                         => flat[i].v[1][1] = data.v[i][1]
               ELSE flat[i] = Obj(<<data.v[i]>>)

\* a mapping was split, and an oversized pair came out with another value
C3_Witness ==
  /\ ChunkedObject
  /\ Len(ret.chunks) >= 2
  /\ \E j \in 1..Len(ret.chunks) :
       /\ ret.chunks[j].t = "object"
       /\ Len(ret.chunks[j].v) >= 2
  /\ \E i \in 1..Len(data.v) :
       /\ EntrySize(data.v[i]) > Coalesce(options.maxChunkSize, MAX_CHUNK_SIZE)
       /\ Flattened(ret.chunks)[i] # Obj(<<data.v[i]>>)

\* the serialized size of a chunk, and of one element or pair of it alone
ChunkSize(chunk) == Len(JsonText(chunk, 0, 0))
MemberSize(chunk, i) ==
  IF chunk.t = "array" THEN Len(JsonText(chunk.v[i], 0, 0))
  ELSE EntrySize(chunk.v[i])

\* C4: every chunk of an array or a mapping has a serialized size of at most
\* maxChunkSize, or holds exactly one element or pair (read in the claim's
\* favour: a chunk of one member is let off whatever that member's size);
\* and an element or pair that alone exceeds maxChunkSize is in a chunk by
\* itself.
C4_FragmentSizeBound ==
  (ChunkedArray \/ ChunkedObject) =>
    LET maxChunkSize == Coalesce(options.maxChunkSize, MAX_CHUNK_SIZE)
    IN  \A i \in 1..Len(ret.chunks) :
          LET chunk == ret.chunks[i]
          IN  /\ \/ ChunkSize(chunk) <= maxChunkSize
                 \/ Len(chunk.v) = 1
              /\ \A k \in 1..Len(chunk.v) :
                   MemberSize(chunk, k) > maxChunkSize => Len(chunk.v) = 1

ChunkingPath ==
  pc = "formatChunkedResponse" /\ ~ret.threw /\ needsChunking(data, options)

C6_NeverThrows ==
  pc \in {"formatChunkedResponse", "createSuccessResponse"} => ~ret.threw

\* the options with every non-positive limit taken out, so that the
\* default stands in for it
WithDefaultsForInvalid(opts) ==
  [f \in DOMAIN opts |->
     IF opts[f] # None /\ opts[f][1] <= 0 THEN None ELSE opts[f]]

\* C7: a non-positive limit has the same effect as the default of its
\* field.
C7_InvalidLimitsAsDefaults ==
  pc = "formatTruncatedResponse" =>
    ret = formatTruncatedResponse(data, WithDefaultsForInvalid(options))

Paginated == pc = "paginateResults"

\* C8: data is the slice of the items from the reported offset, as long as
\* the reported limit or up to the end, in the original order; total is the
\* number of items.
C8_WindowIsSlice ==
  Paginated =>
    LET o == ret.pagination.offset
        l == ret.pagination.limit
        total == Len(items)
    IN  /\ ret.pagination.total = total
        /\ Len(ret.data) = Min(l, Max(0, total - o))
        /\ \A k \in 1..Len(ret.data) : ret.data[k] = items[o + k]

\* a window inside the list that is cut short by neither end
C8_Witness ==
  /\ Paginated
  /\ ret.pagination.offset >= 2
  /\ Len(ret.data) >= 2
  /\ ret.pagination.offset + Len(ret.data) < Len(items)

\* C9: the reported offset is the requested one (0 when absent) brought
\* into 0..total, an offset beyond total gives no data, and the reported
\* limit is the requested one (10 when absent), 1 at least.
C9_ParametersNormalised ==
  Paginated =>
    LET o == IF params.offset = None THEN 0 ELSE params.offset[1]
        l == IF params.limit = None THEN 10 ELSE params.limit[1]
        total == Len(items)
    IN  /\ ret.pagination.offset =
             (IF o < 0 THEN 0 ELSE IF o > total THEN total ELSE o)
        /\ o > total => ret.data = <<>>
        /\ ret.pagination.limit = (IF l < 1 THEN 1 ELSE l)

\* an offset beyond a list that has items, with a limit that is not positive
C9_Witness ==
  /\ Paginated
  /\ Len(items) >= 1
  /\ params.offset # None /\ params.offset[1] > Len(items)
  /\ params.limit # None /\ params.limit[1] <= 0
  /\ ret.pagination.limit = 1

\* C10: hasMore is true exactly when offset + limit < total, and nextOffset
\* is offset + limit when hasMore is true and null otherwise.
C10_HasMoreAndNextOffset ==
  Paginated =>
    LET o == ret.pagination.offset
        l == ret.pagination.limit
    IN  /\ ret.pagination.hasMore <=> (o + l < Len(items))
        /\ ret.pagination.nextOffset =
             (IF ret.pagination.hasMore THEN Some(o + l) ELSE None)

\* a page that ends exactly at the last item: no more, no next offset
C10_Witness ==
  /\ Paginated
  /\ ret.pagination.offset >= 1
  /\ ret.pagination.offset + ret.pagination.limit = Len(items)
  /\ ~ret.pagination.hasMore
  /\ ret.pagination.nextOffset = None

\* C11: prevOffset is null when the reported offset is 0, and otherwise it
\* is the reported offset less the reported limit, 0 at least; an offset
\* beyond a list that has items gives a prevOffset that is not null.
C11_PrevOffset ==
  Paginated =>
    LET o == ret.pagination.offset
        l == ret.pagination.limit
    IN  /\ ret.pagination.prevOffset =
             (IF o = 0 THEN None ELSE Some(IF o - l > 0 THEN o - l ELSE 0))
        /\ (params.offset # None /\ params.offset[1] > Len(items)
              /\ Len(items) >= 1)
             => ret.pagination.prevOffset # None

\* an offset beyond the list, with a limit larger than the clamped offset
C11_Witness ==
  /\ Paginated
  /\ Len(items) >= 2
  /\ params.offset # None /\ params.offset[1] > Len(items)
  /\ ret.pagination.limit > ret.pagination.offset
  /\ ret.pagination.prevOffset = Some(0)

Truncated == pc = "formatTruncatedResponse"
LimitOfItems == Coalesce(options.maxArrayItems, MAX_ARRAY_ITEMS)
LimitOfDepth == Coalesce(options.maxObjectDepth, MAX_OBJECT_DEPTH)
IsComposite(value) == value.t \in {"array", "object"}

\* the member of a composite met at `depth` came out as it must when it is
\* a scalar within the depth limit: unchanged
ScalarKept(inp, out, depth) ==
  (depth <= LimitOfDepth /\ inp.t \notin {"array", "object", "ref"})
    => out = inp

\* out is what the claim C12 says of inp met at `depth` under the ancestors
\* anc: an array within the depth limit that is longer than maxArrayItems
\* came out as its first maxArrayItems members in order and one marker
\* after them, a shorter one with all its members and no marker
RECURSIVE ArraysCut(_, _, _, _)
ArraysCut(inp, out, depth, anc) ==
  IF depth > LimitOfDepth THEN TRUE
  ELSE IF inp.t = "ref"
    THEN ArraysCut(RefTarget(inp, anc), out, depth, RefAncestors(inp, anc))
  ELSE IF inp.t = "array"
    THEN /\ out.t = "array"
         /\ IF Len(inp.v) > LimitOfItems
              THEN /\ Len(out.v) = LimitOfItems + 1
                   /\ out.v[LimitOfItems + 1] =
                        Str(MoreItems(Len(inp.v) - LimitOfItems))
                   /\ \A i \in 1..LimitOfItems :
                        /\ ScalarKept(inp.v[i], out.v[i], depth + 1)
                        /\ ArraysCut(inp.v[i], out.v[i], depth + 1,
                                     Append(anc, inp))
              ELSE /\ Len(out.v) = Len(inp.v)
                   /\ \A i \in 1..Len(inp.v) :
                        /\ ScalarKept(inp.v[i], out.v[i], depth + 1)
                        /\ ArraysCut(inp.v[i], out.v[i], depth + 1,
                                     Append(anc, inp))
  ELSE IF inp.t = "object"
    THEN /\ out.t = "object"
         /\ Len(out.v) = Len(inp.v)
         /\ \A i \in 1..Len(inp.v) :
              ArraysCut(inp.v[i][2], out.v[i][2], depth + 1, Append(anc, inp))
  ELSE TRUE

\* an array longer than maxArrayItems is met within the depth limit, among
\* the members that are kept
RECURSIVE HasLongArray(_, _, _)
HasLongArray(inp, depth, anc) ==
  IF depth > LimitOfDepth THEN FALSE
  ELSE IF inp.t = "ref"
    THEN HasLongArray(RefTarget(inp, anc), depth, RefAncestors(inp, anc))
  ELSE IF inp.t = "array"
    THEN \/ Len(inp.v) > LimitOfItems
         \/ \E i \in 1..Len(inp.v) :
              HasLongArray(inp.v[i], depth + 1, Append(anc, inp))
  ELSE IF inp.t = "object"
    THEN \E i \in 1..Len(inp.v) :
           HasLongArray(inp.v[i][2], depth + 1, Append(anc, inp))
  ELSE FALSE

\* C12: an array longer than maxArrayItems met within the depth limit comes
\* out as its first maxArrayItems elements in order followed by exactly one
\* marker, so maxArrayItems + 1 long, and wasTruncated is true; an array
\* that is not longer keeps all its elements and gets no marker.
C12_LongArraysCut ==
  Truncated =>
    /\ ArraysCut(data, ret.formattedData, 0, <<>>)
    /\ HasLongArray(data, 0, <<>>) => ret.metadata.wasTruncated

\* how many members of the array inp are kept in out: all of them, or all
\* the elements of out but the marker
Kept(inp, out) ==
  IF Len(inp.v) > LimitOfItems THEN Len(out.v) - 1 ELSE Len(inp.v)

\* out is what the claim C13 says of inp met at `depth` under the ancestors
\* anc: beyond the depth limit the sentinel, within it a composite of the
\* same kind whose kept members are so again
RECURSIVE DepthCut(_, _, _, _)
DepthCut(inp, out, depth, anc) ==
  IF depth > LimitOfDepth THEN out = Str(DepthSentinel)
  ELSE IF inp.t = "ref"
    THEN DepthCut(RefTarget(inp, anc), out, depth, RefAncestors(inp, anc))
  ELSE IF inp.t = "array"
    THEN /\ out.t = "array"
         /\ \A i \in 1..Kept(inp, out) :
              DepthCut(inp.v[i], out.v[i], depth + 1, Append(anc, inp))
  ELSE IF inp.t = "object"
    THEN /\ out.t = "object"
         /\ Len(out.v) = Len(inp.v)
         /\ \A i \in 1..Len(inp.v) :
              DepthCut(inp.v[i][2], out.v[i][2], depth + 1, Append(anc, inp))
  ELSE TRUE

\* a kept value of inp lies beyond the depth limit
RECURSIVE HasDeep(_, _, _, _)
HasDeep(inp, out, depth, anc) ==
  IF depth > LimitOfDepth THEN TRUE
  ELSE IF inp.t = "ref"
    THEN HasDeep(RefTarget(inp, anc), out, depth, RefAncestors(inp, anc))
  ELSE IF inp.t = "array"
    THEN \E i \in 1..Kept(inp, out) :
           HasDeep(inp.v[i], out.v[i], depth + 1, Append(anc, inp))
  ELSE IF inp.t = "object"
    THEN \E i \in 1..Len(inp.v) :
           HasDeep(inp.v[i][2], out.v[i][2], depth + 1, Append(anc, inp))
  ELSE FALSE

\* C13: with the root at depth 0, every value at depth > maxObjectDepth is
\* replaced by the sentinel string and wasTruncated is set, and every
\* composite at depth <= maxObjectDepth is kept as a composite of its kind.
C13_DepthLimit ==
  Truncated =>
    /\ DepthCut(data, ret.formattedData, 0, <<>>)
    /\ HasDeep(data, ret.formattedData, 0, <<>>) => ret.metadata.wasTruncated

\* an array inside an object came out with the array kept and its members
\* replaced, under maxObjectDepth 1
C13_Witness ==
  /\ Truncated
  /\ options.maxObjectDepth = Some(1)
  /\ data.t = "object"
  /\ \E i \in 1..Len(data.v) :
       /\ data.v[i][2].t = "array"
       /\ ret.formattedData.v[i][2].t = "array"
       /\ Len(ret.formattedData.v[i][2].v) >= 2
       /\ ret.formattedData.v[i][2].v[1] = Str(DepthSentinel)
  /\ ret.metadata.wasTruncated

IsScalar(value) == value.t \in {"null", "boolean", "number", "string"}

\* out is what the claim C14 says of inp under the ancestors anc: a scalar
\* or null is itself, wherever it is; a composite that came out as a
\* composite of its kind has its kept members so again
RECURSIVE ScalarsPass(_, _, _)
ScalarsPass(inp, out, anc) ==
  IF inp.t = "ref"
    THEN ScalarsPass(RefTarget(inp, anc), out, RefAncestors(inp, anc))
  ELSE IF IsScalar(inp) THEN out = inp
  ELSE IF inp.t = "array" /\ out.t = "array"
    THEN \A i \in 1..Kept(inp, out) :
           ScalarsPass(inp.v[i], out.v[i], Append(anc, inp))
  ELSE IF inp.t = "object" /\ out.t = "object"
    THEN \A i \in 1..Len(inp.v) :
           ScalarsPass(inp.v[i][2], out.v[i][2], Append(anc, inp))
  ELSE TRUE

\* a kept composite of inp lies beyond the depth limit
RECURSIVE HasDeepComposite(_, _, _, _)
HasDeepComposite(inp, out, depth, anc) ==
  IF inp.t = "ref"
    THEN HasDeepComposite(RefTarget(inp, anc), out, depth,
                          RefAncestors(inp, anc))
  ELSE IF ~IsComposite(inp) THEN FALSE
  ELSE IF depth > LimitOfDepth THEN TRUE
  ELSE IF inp.t = "array"
    THEN \E i \in 1..Kept(inp, out) :
           HasDeepComposite(inp.v[i], out.v[i], depth + 1, Append(anc, inp))
  ELSE \E i \in 1..Len(inp.v) :
         HasDeepComposite(inp.v[i][2], out.v[i][2], depth + 1, Append(anc, inp))

\* C14: under limits that are positive, every scalar and every null leaf of
\* the input comes out unchanged wherever it is in the tree, and
\* wasTruncated is set only for an array over the length limit or a
\* composite beyond the depth limit, never for a scalar or null leaf.
C14_ScalarsPassThrough ==
  (Truncated /\ PositiveLimits(options)) =>
    /\ ScalarsPass(data, ret.formattedData, <<>>)
    /\ ret.metadata.wasTruncated =>
         \/ HasLongArray(data, 0, <<>>)
         \/ HasDeepComposite(data, ret.formattedData, 0, <<>>)

\* out is what the claim C15 says of inp met at `depth` under the ancestors
\* anc: a mapping within the depth limit came out as a mapping of the same
\* keys in the same order, each bound to formatValue(value, depth + 1)
RECURSIVE KeysKept(_, _, _, _)
KeysKept(inp, out, depth, anc) ==
  IF depth > LimitOfDepth THEN TRUE
  ELSE IF inp.t = "ref"
    THEN KeysKept(RefTarget(inp, anc), out, depth, RefAncestors(inp, anc))
  ELSE IF inp.t = "array"
    THEN \A i \in 1..Kept(inp, out) :
           KeysKept(inp.v[i], out.v[i], depth + 1, Append(anc, inp))
  ELSE IF inp.t = "object"
    THEN /\ out.t = "object"
         /\ Len(out.v) = Len(inp.v)
         /\ \A i \in 1..Len(inp.v) :
              /\ out.v[i][1] = inp.v[i][1]
              /\ out.v[i][2] =
                   formatValue(inp.v[i][2], depth + 1, Append(anc, inp),
                               NoTruncation, options).val
              /\ KeysKept(inp.v[i][2], out.v[i][2], depth + 1, Append(anc, inp))
  ELSE TRUE

\* C15: every mapping met within the depth limit comes out as a mapping of
\* exactly the same keys in the same order, each bound to its value
\* truncated at depth + 1, however many keys it has.
C15_KeysKept ==
  Truncated => KeysKept(data, ret.formattedData, 0, <<>>)

\* a mapping of three keys came out truncated, a mapping inside it too
C15_Witness ==
  /\ Truncated
  /\ data.t = "object" /\ Len(data.v) = 3
  /\ ret.formattedData.t = "object"
  /\ ret.metadata.wasTruncated
  /\ \E i \in 1..3 : data.v[i][2].t = "object"
                       /\ ret.formattedData.v[i][2].t = "object"

\* the text ["k1","k2",...] of the keys of the pairs from the i-th on
RECURSIVE KeyList(_, _)
KeyList(pairs, i) ==
  IF i > Len(pairs) THEN ""
  ELSE (IF i > 1 THEN "," ELSE "") \o "\"" \o pairs[i][1] \o "\""
         \o KeyList(pairs, i + 1)

\* C16: chunkResponse returns a continuation token exactly when it returns
\* more than one chunk; for an array the token is the base64 text of its
\* type and the length of the input, for a mapping of its type and all the
\* keys of the input in their order; a scalar or null gives one chunk, the
\* value, and no token.
C16_ContinuationToken ==
  (pc = "chunkResponse" /\ ~ret.threw) =>
    /\ ret.continuationToken # None <=> Len(ret.chunks) > 1
    /\ (data.t = "array" /\ ret.continuationToken # None) =>
         ret.continuationToken[1].base64 =
           "{\"type\":\"array\",\"total\":" \o ToString(Len(data.v)) \o "}"
    /\ (data.t = "object" /\ ret.continuationToken # None) =>
         ret.continuationToken[1].base64 =
           "{\"type\":\"object\",\"keys\":[" \o KeyList(data.v, 1) \o "]}"
    /\ ~IsComposite(data) =>
         ret.chunks = <<data>> /\ ret.continuationToken = None

\* a mapping of three pairs came out in two chunks or more, with its token
C16_Witness ==
  /\ ChunkedObject
  /\ Len(data.v) = 3
  /\ Len(ret.chunks) >= 2
  /\ ret.continuationToken # None

\* C17: in the chunking path there is one fragment per chunk in chunk
\* order, every fragment has isChunked = true, the i-th has chunkIndex i
\* counted from 0, every totalChunks is the number of fragments, and no
\* fragment but the last has the continuation token.
C17_ChunkFields ==
  ChunkingPath =>
    LET n == Len(ret.results)
    IN  /\ n = Len(chunkResponse(data, options).chunks)
        /\ \A i \in 1..n :
             /\ ret.results[i].isChunked = Some(TRUE)
             /\ ret.results[i].chunkIndex = Some(i - 1)
             /\ ret.results[i].totalChunks = Some(n)
             /\ i < n => ret.results[i].continuationToken = None

\* three fragments came out, the last one with the token
C17_Witness ==
  /\ ChunkingPath
  /\ Len(ret.results) = 3
  /\ ret.results[3].continuationToken # None
  /\ ret.results[3].chunkIndex = Some(2)

SinglePath ==
  pc = "formatChunkedResponse" /\ ~ret.threw /\ ~needsChunking(data, options)

\* C18: when no chunking is needed there is exactly one fragment, without
\* isChunked, chunkIndex, totalChunks and continuationToken; its text is
\* the serialization of the value truncated once, and it has the
\* Truncation Record exactly when that pass reported wasTruncated = true.
C18_SingleFragment ==
  SinglePath =>
    LET f == formatTruncatedResponse(data, options)
    IN  /\ Len(ret.results) = 1
        /\ ret.results[1].isChunked = None
        /\ ret.results[1].chunkIndex = None
        /\ ret.results[1].totalChunks = None
        /\ ret.results[1].continuationToken = None
        /\ ret.results[1].text = formattedString(f.formattedData)
        /\ ret.results[1].metadata # None <=> f.metadata.wasTruncated
        /\ ret.results[1].metadata # None =>
             ret.results[1].metadata[1] = f.metadata

\* an array came out as one fragment, truncated
C18_Witness ==
  /\ SinglePath
  /\ data.t = "array"
  /\ Len(ret.results) = 1
  /\ ret.results[1].metadata # None
  /\ ret.results[1].metadata[1].itemsOmitted # None

\* C20: formatChunkedResponse and createSuccessResponse, when they return,
\* return a list of fragments that is not empty.
C20_ResultsNotEmpty ==
  (pc \in {"formatChunkedResponse", "createSuccessResponse"} /\ ~ret.threw)
    => Len(ret.results) >= 1

\* C19: createErrorResponse turns a message string or an Error object into
\* one fragment with isError = true whose text is the message, without
\* chunk fields and without truncation metadata, whatever the length of
\* the message.
C19_ErrorFragment ==
  pc = "createErrorResponse" =>
    /\ ret.isError = Some(TRUE)
    /\ ret.text = (IF data.t = "error" THEN data.message ELSE data.s)
    /\ Len(ret.text) = Len(IF data.t = "error" THEN data.message ELSE data.s)
    /\ ret.isChunked = None
    /\ ret.chunkIndex = None
    /\ ret.totalChunks = None
    /\ ret.continuationToken = None
    /\ ret.metadata = None

\* an Error object with the longest message came out as its message
C19_Witness ==
  /\ pc = "createErrorResponse"
  /\ data.t = "error"
  /\ Len(data.message) = MaxMessage
  /\ ret.text = data.message

Answered == req # None /\ res # None

\* the request presents the configured key, as bearer token or as api_key
PresentsKey ==
  /\ mcpApiKey # None
  /\ \/ bearerToken(req.authorization) = mcpApiKey
     \/ req.api_key = mcpApiKey

\* C21: a request to /sse, /mcp or /messages reaches its handler
\* only when its bearer token or its api_key parameter is the configured
\* key; every other request is answered 401 with the error code -32001 and
\* no handler runs.
C21_KeyRequired ==
  Answered =>
    IF PresentsKey THEN res.handler # "none" ELSE res = Unauthorized

\* C30: the map of transports holds exactly the sessions whose connection
\* was accepted and has not closed (so the close of one session leaves the
\* entries of the others), and a POST /messages that is let through is
\* forwarded to the transport of its sessionId when that is registered and
\* is answered 400 with the error code -32000 when it is not.
C30_SessionRegistry ==
  /\ transports = connections
  /\ (pc = "postMessages" /\ res # Unauthorized) =>
       IF req.sessionId # None /\ req.sessionId[1] \in transports
         THEN res.forwarded = req.sessionId
         ELSE res = InvalidSession

\* the sum of length - maxArrayItems over the arrays longer than
\* maxArrayItems that the pass visits in inp met at `depth`, and the part of
\* that sum of the kept members of inp from the i-th on
RECURSIVE OmittedSum(_, _, _, _)
RECURSIVE OmittedFrom(_, _, _, _, _)
OmittedSum(inp, out, depth, anc) ==
  IF depth > LimitOfDepth THEN 0
  ELSE IF inp.t = "ref"
    THEN OmittedSum(RefTarget(inp, anc), out, depth, RefAncestors(inp, anc))
  ELSE IF inp.t = "array"
    THEN (IF Len(inp.v) > LimitOfItems THEN Len(inp.v) - LimitOfItems ELSE 0)
           + OmittedFrom(inp, out, depth, anc, 1)
  ELSE IF inp.t = "object" THEN OmittedFrom(inp, out, depth, anc, 1)
  ELSE 0
OmittedFrom(inp, out, depth, anc, i) ==
  IF inp.t = "array"
    THEN IF i > Kept(inp, out) THEN 0
         ELSE OmittedSum(inp.v[i], out.v[i], depth + 1, Append(anc, inp))
                + OmittedFrom(inp, out, depth, anc, i + 1)
  ELSE IF i > Len(inp.v) THEN 0
       ELSE OmittedSum(inp.v[i][2], out.v[i][2], depth + 1, Append(anc, inp))
              + OmittedFrom(inp, out, depth, anc, i + 1)

\* C22: itemsOmitted is the sum of length - maxArrayItems over every array
\* longer than maxArrayItems that the pass visits, wherever it is in the
\* tree, and it is absent exactly when no array was shortened.
C22_ItemsOmittedSum ==
  Truncated =>
    /\ ret.metadata.itemsOmitted =
         (IF HasLongArray(data, 0, <<>>)
            THEN Some(OmittedSum(data, ret.formattedData, 0, <<>>))
            ELSE None)
    /\ HasLongArray(data, 0, <<>>) =>
         OmittedSum(data, ret.formattedData, 0, <<>>) >= 1

\* two arrays inside an array that is not shortened were both shortened
C22_Witness ==
  /\ Truncated
  /\ options.maxArrayItems = Some(2)
  /\ data.t = "array" /\ Len(data.v) = 2
  /\ \A i \in 1..2 : data.v[i].t = "array" /\ Len(data.v[i].v) = 3
  /\ ret.metadata.itemsOmitted = Some(2)

\* the message of the first truncation event of the depth-first,
\* left-to-right walk of inp met at `depth` (None when there is none), the
\* depth test coming before the length test at every value; and that of the
\* kept members of inp from the i-th on
RECURSIVE FirstReason(_, _, _, _)
RECURSIVE FirstReasonFrom(_, _, _, _, _)
FirstReason(inp, out, depth, anc) ==
  IF depth > LimitOfDepth THEN Some("Maximum object depth exceeded")
  ELSE IF inp.t = "ref"
    THEN FirstReason(RefTarget(inp, anc), out, depth, RefAncestors(inp, anc))
  ELSE IF inp.t = "array" /\ Len(inp.v) > LimitOfItems
    THEN Some("Array size limit exceeded")
  ELSE IF IsComposite(inp) THEN FirstReasonFrom(inp, out, depth, anc, 1)
  ELSE None
FirstReasonFrom(inp, out, depth, anc, i) ==
  IF i > Len(inp.v) THEN None
  ELSE LET first ==
             FirstReason(IF inp.t = "array" THEN inp.v[i] ELSE inp.v[i][2],
                         IF inp.t = "array" THEN out.v[i] ELSE out.v[i][2],
                         depth + 1, Append(anc, inp))
       IN  IF first # None THEN first
           ELSE FirstReasonFrom(inp, out, depth, anc, i + 1)

\* C23: the reason reported is the message of the first truncation event
\* of the walk, depth or array size, and no later event replaces it.
C23_FirstReasonWins ==
  Truncated =>
    ret.metadata.reason = FirstReason(data, ret.formattedData, 0, <<>>)

\* a depth event came first and an array was shortened after it
C23_Witness ==
  /\ Truncated
  /\ ret.metadata.reason = Some("Maximum object depth exceeded")
  /\ ret.metadata.itemsOmitted # None
  /\ LimitOfDepth >= 1

\* the limit needsChunking compares with
LimitOfSize == IF options.maxResponseSize = None THEN 1000000
               ELSE options.maxResponseSize[1]

\* the estimate of the input is above the limit
EstimateExceeds == approximateObjectSize(data) > LimitOfSize

\* the input cannot be serialized and measured: the copy never ends on a
\* cycle, and undefined has no text to measure
SerializeFails == HasCycle(data) \/ data.t = "undefined"

\* the text of the input is longer than the limit
SerializedExceeds ==
  /\ ~SerializeFails
  /\ Len(JsonStringify(data, 2).text[1]) > LimitOfSize

\* C24: needsChunking answers a boolean for every input, true exactly when
\* the estimate exceeds maxResponseSize, or the serialized text is longer
\* than maxResponseSize, or estimating or serializing fails; so every value
\* with a reference cycle is answered true.
C24_NeedsChunkingExact ==
  pc = "needsChunking" =>
    /\ ret \in BOOLEAN
    /\ ret = (EstimateExceeds \/ SerializedExceeds \/ SerializeFails)
    /\ HasCycle(data) => ret = TRUE

C24_Witness ==
  /\ pc = "needsChunking"
  /\ HasCycle(data)
  /\ ~EstimateExceeds
  /\ ret = TRUE

\* the values in the slots of a composite, in order
SlotValues(node) ==
  IF node.t = "array" THEN node.v ELSE [i \in 1..Len(node.v) |-> node.v[i][2]]

\* the composites held by a slot of a composite of `set`
HeldBy(heap, set) ==
  {n \in DOMAIN heap :
     \E m \in set : \E i \in 1..Len(heap[m].v) : SlotValues(heap[m])[i] = Ptr(n)}

\* the composites of the graph of `obj`
RECURSIVE Closure(_, _)
Closure(heap, set) ==
  IF HeldBy(heap, set) \subseteq set THEN set
  ELSE Closure(heap, set \cup HeldBy(heap, set))

Reached == IF data.obj.t = "ptr" THEN Closure(data.heap, {data.obj.n}) ELSE {}

\* how many slots of the graph hold composite n
Holders(n) ==
  Cardinality({mi \in UNION {{<<m, i>> : i \in 1..Len(data.heap[m].v)} :
                                m \in Reached} :
                 SlotValues(data.heap[mi[1]])[mi[2]] = Ptr(n)})

\* the graph is a tree: no composite is held twice, none holds an ancestor
IsTree ==
  \A n \in Reached : Holders(n) = (IF n = data.obj.n THEN 0 ELSE 1)

\* the cost of a scalar
ScalarCost(value) ==
  CASE value.t = "null" -> 4
    [] value.t = "boolean" -> 4
    [] value.t = "number" -> 8
    [] value.t = "string" -> 2 * Len(value.s)

\* the reference cost of a tree: a composite costs 8 and its children's
\* costs, a mapping also twice the length of each key
RECURSIVE Cost(_, _), CostFrom(_, _, _)
Cost(heap, value) ==
  IF value.t = "ptr" THEN 8 + CostFrom(heap, heap[value.n], 1)
  ELSE ScalarCost(value)

CostFrom(heap, node, i) ==
  IF i > Len(node.v) THEN 0
  ELSE (IF node.t = "object" THEN 2 * Len(node.v[i][1]) ELSE 0)
         + Cost(heap, SlotValues(node)[i]) + CostFrom(heap, node, i + 1)

\* C25: on an acyclic value without shared substructure, made of nulls,
\* booleans, numbers, strings, sequences and mappings, approximateObjectSize
\* returns the reference cost: null 4, boolean 4, number 8, string twice its
\* length, a sequence or mapping 8 plus its children's costs, each mapping
\* key adding twice its length.
C25_ReferenceCost ==
  (pc = "approximateObjectSize" /\ data.obj.t # "undefined" /\ IsTree) =>
    ret = Cost(data.heap, data.obj)

C25_Witness ==
  /\ pc = "approximateObjectSize"
  /\ IsTree
  /\ Cardinality(Reached) = MaxNodes
  /\ \E n \in Reached : data.heap[n].t = "object" /\ Len(data.heap[n].v) = 2
  /\ ret = Cost(data.heap, data.obj)

\* what composite n costs by itself: its header, its keys and the scalars
\* it holds
RECURSIVE OwnCostFrom(_, _)
OwnCostFrom(node, i) ==
  IF i > Len(node.v) THEN 0
  ELSE (IF node.t = "object" THEN 2 * Len(node.v[i][1]) ELSE 0)
         + (IF SlotValues(node)[i].t = "ptr" THEN 0
            ELSE ScalarCost(SlotValues(node)[i]))
         + OwnCostFrom(node, i + 1)

\* the own costs of the composites 1..n of the graph, each counted once
RECURSIVE OnceEach(_)
OnceEach(n) ==
  IF n = 0 THEN 0
  ELSE (IF n \in Reached THEN 8 + OwnCostFrom(data.heap[n], 1) ELSE 0)
         + OnceEach(n - 1)

\* the walk meets a composite again: one is held by two slots, or the
\* root is held by a slot
MeetsAgain ==
  \E n \in Reached : Holders(n) > (IF n = data.obj.n THEN 0 ELSE 1)

\* C26: approximateObjectSize returns on every finite value graph, with
\* cycles or shared composites: every composite of the graph is costed
\* once, a repeat visit adds 0, and a second call on the same graph returns
\* the same number since each call has a visited set of its own.
C26_EachCompositeOnce ==
  (pc \in {"approximateObjectSize", "approximateObjectSize2"}
     /\ data.obj.t = "ptr") =>
    /\ ret = OnceEach(MaxNodes)
    /\ pc = "approximateObjectSize2" => ret = prev

C26_Witness ==
  /\ pc = "approximateObjectSize2"
  /\ data.obj.t = "ptr"
  /\ MeetsAgain
  /\ \E n \in Reached : Ptr(n) \in {SlotValues(data.heap[n])[i] :
                                      i \in 1..Len(data.heap[n].v)}
  /\ ret = prev
  /\ ret > 8

\* the largest of a set of naturals, 0 for the empty set
Largest(ns) == IF ns = {} THEN 0 ELSE CHOOSE n \in ns : \A m \in ns : m <= n

\* how deep the composites of a tree nest: 0 for a scalar, 1 for a
\* composite of scalars
RECURSIVE Nesting(_)
Nesting(value) ==
  CASE value.t = "array" ->
         1 + Largest({Nesting(value.v[i]) : i \in 1..Len(value.v)})
    [] value.t = "object" ->
         1 + Largest({Nesting(value.v[i][2]) : i \in 1..Len(value.v)})
    [] OTHER -> 0

\* no array of the tree has more than n elements
RECURSIVE ArraysWithin(_, _)
ArraysWithin(value, n) ==
  CASE value.t = "array" ->
         /\ Len(value.v) <= n
         /\ \A i \in 1..Len(value.v) : ArraysWithin(value.v[i], n)
    [] value.t = "object" ->
         \A i \in 1..Len(value.v) : ArraysWithin(value.v[i][2], n)
    [] OTHER -> TRUE

\* C27: formatTruncatedResponse returns for every value graph, cyclic ones
\* included, and what it returns is a tree without references back, whose
\* composites nest at most maxObjectDepth + 1 deep and whose arrays have at
\* most maxArrayItems + 1 elements.
C27_BoundedOutput ==
  Truncated =>
    /\ ~HasCycle(ret.formattedData)
    /\ Nesting(ret.formattedData) <= LimitOfDepth + 1
    /\ ArraysWithin(ret.formattedData, LimitOfItems + 1)

\* C28: the metadata of formatTruncatedResponse agrees with the result:
\* with wasTruncated = false the formatted data equals the input and
\* neither reason nor itemsOmitted is there; reason is there exactly when
\* wasTruncated is true; itemsOmitted, when there, is at least 1 and
\* wasTruncated is true.
C28_MetadataConsistent ==
  Truncated =>
    /\ ~ret.metadata.wasTruncated =>
         /\ ret.formattedData = data
         /\ ret.metadata.reason = None
         /\ ret.metadata.itemsOmitted = None
    /\ (ret.metadata.reason # None) = ret.metadata.wasTruncated
    /\ ret.metadata.itemsOmitted # None =>
         /\ ret.metadata.itemsOmitted[1] >= 1
         /\ ret.metadata.wasTruncated

C28_Witness ==
  /\ Truncated
  /\ ~ret.metadata.wasTruncated
  /\ IsComposite(data)
  /\ Nesting(data) >= 2
  /\ ret.formattedData = data

\* a call of the traversal was made with the offset of the state before
\* it, and returned a next offset
Advanced == pc = "getAllItems" /\ ret'.pagination.nextOffset # None

\* C29: the traversal of the pages is complete and ends: from offset 0 and
\* with a fixed limit, following nextOffset until it is null takes finitely
\* many calls, every nextOffset is above the offset just used and below
\* total, and the pages, one after the other, are the sequence itself.
C29_TraversalComplete ==
  /\ [][Advanced =>
          /\ ret'.pagination.nextOffset[1] > params.offset[1]
          /\ ret'.pagination.nextOffset[1] < Len(items)]_vars
  /\ [](/\ Len(allItems) <= Len(items)
        /\ allItems = SubSeq(items, 1, Len(allItems)))
  /\ [](pc \in {"done", "returned"} => allItems = items)
  /\ <>(pc = "returned")

C29_Witness ==
  /\ pc = "returned"
  /\ allItems = items
  /\ Len(items) > 2 * validLimit(requestedLimit(params))
  /\ Len(items) % validLimit(requestedLimit(params)) # 0
  /\ params.offset[1] > 0

====
